---- MODULE Spec2Model ----
(***************************************************************************)
(* StillOpen: the browser components (PlacePage, ResultCard, SearchBar,    *)
(* SearchResults, StatusBadge, LoadingView), the two service calls of      *)
(* lib/api.ts with the requests they send, and                             *)
(* the Place Intelligence Engine behind them (Prediction Service and Query *)
(* Resolver, which live in the backend and are modelled from the           *)
(* specification).                                                         *)
(*                                                                         *)
(* Text is a sequence of one-character strings, so that trim() and         *)
(* toLowerCase() are computed and not assumed.                             *)
(*                                                                         *)
(* The parts keep no state in common (each component owns its useState     *)
(* cells, each backend request its own locals), so a behaviour follows one *)
(* of them, named by `component`, and the others stay as constructed.      *)
(***************************************************************************)
EXTENDS Integers, Sequences, FiniteSets, Bags, TLC

VARIABLES
    component,      \* the part of the application this behaviour exercises
    catalog,        \* Place Catalog Store: the set of place rows
    modelReady,     \* Classifier Adapter finished loading its artifact
    \* ---- Prediction Service, one request
    svcPc,          \* position of predictById
    svcPlace,       \* the row fetched
    svcVector,      \* the FeatureVector extracted
    svcPrediction,  \* the classifier's (label, probability, contributions)
    svcExplanation, \* the Explanation Generator's strings
    svcFailed,      \* the step that failed, or "none"
    svcTrace,       \* the steps run for this request, in order
    svcResult,      \* the PredictionResult assembled
    \* ---- GET /place/{id} and PlacePage
    httpResp,       \* the response on its way to getPlaceDetails
    pagePc,         \* position of PlacePage
    pageId,         \* params.id
    pageRes,        \* the response getPlaceDetails saw
    pageFetch,      \* what getPlaceDetails did: returned a value or threw
    pageView,       \* what PlacePage returned
    pageThrown,     \* an exception left PlacePage
    \* ---- SearchBar
    barQuery,       \* useState query
    barResults,     \* useState results
    barLoading,     \* useState loading
    barShowDropdown,\* useState showDropdown
    barTimers,      \* pending debounce timers, each with the query it captured
    barInflight,    \* searchPlaces calls awaiting their response (a bag)
    barSettled,     \* how the latest searchPlaces call ended for SearchBar
    barThrown,      \* an exception left the debounce callback
    barPushed,      \* the latest router.push
    barLastSent,    \* the query of the latest searchPlaces call made
    \* ---- SearchResults
    resQuery,       \* the query prop
    resResults,     \* useState results
    resLoading,     \* useState loading
    resTimers,      \* pending zero-delay timers, each with its effect's active
    resInflight,    \* searchPlaces calls under way, each with its effect's active
    resSettled,     \* how the latest searchPlaces call ended for SearchResults
    resThrown,      \* an exception left the promise chain
    resLate,        \* the latest completion of a request of an earlier query
    \* ---- what the three views show for one received status
    rcvStatus,      \* the status string received
    rcvConfidence,  \* the confidence received, in thousandths
    shownCard,      \* ResultCard for it
    shownRow,       \* the SearchResults row for it
    shownDropdownRow, \* the SearchBar dropdown row for it
    \* ---- Query Resolver, one search
    qsPc,           \* position of search
    qsQuery,        \* queryText
    qsRetrieved,    \* the rows in the order the store returned them
    qsRanked,       \* the top candidates after ranking
    qsIndex,        \* candidates resolved so far
    qsFailed,       \* positions whose prediction step errored
    qsOut,          \* the SearchCandidate sequence assembled
    qsLast,         \* the previous answer: its query and its order of ids
    qsRows,         \* the rows SearchResults shows for the answer
    qsDropdown,     \* the rows the dropdown shows for the answer
    \* ---- the two calls of lib/api.ts against the service
    apiPending,     \* requests sent and not yet served (a bag)
    apiServed,      \* the requests served, in the order the service took them
    \* ---- LoadingView
    lvMounted,      \* the component is mounted
    lvIndex,        \* useState index
    lvOnComplete,   \* the identity of the onComplete prop
    lvInterval,     \* the running effect's interval and the prop it captured
    lvTimeouts,     \* pending setTimeout(onComplete, 1000), by prop (a bag)
    lvCalls         \* the invocations of onComplete so far

pageVars == <<pagePc, pageId, pageRes, pageFetch, pageView, pageThrown,
             httpResp>>
svcVars == <<svcPc, svcPlace, svcVector, svcPrediction, svcExplanation,
             svcFailed, svcTrace, svcResult>>
envVars == <<component, catalog, modelReady>>
barVars == <<barQuery, barResults, barLoading, barShowDropdown, barTimers,
            barInflight, barSettled, barThrown, barPushed, barLastSent>>
resVars == <<resQuery, resResults, resLoading, resTimers, resInflight,
            resSettled, resThrown, resLate>>
rcvVars == <<rcvStatus, rcvConfidence, shownCard, shownRow, shownDropdownRow>>
qsVars == <<qsPc, qsQuery, qsRetrieved, qsRanked, qsIndex, qsFailed, qsOut,
           qsLast, qsRows, qsDropdown>>
apiVars == <<apiPending, apiServed>>
lvVars == <<lvMounted, lvIndex, lvOnComplete, lvInterval, lvTimeouts,
           lvCalls>>
vars == <<envVars, svcVars, pageVars, barVars, resVars, rcvVars, qsVars,
          apiVars, lvVars>>

\* everything the place-details flow leaves alone
outsidePlace == <<envVars, barVars, resVars, rcvVars, qsVars, apiVars,
      lvVars>>
\* everything SearchBar leaves alone
outsideBar ==
    <<envVars, svcVars, pageVars, resVars, rcvVars, qsVars, apiVars,
      lvVars>>
\* everything SearchResults leaves alone
outsideResults ==
    <<envVars, svcVars, pageVars, barVars, rcvVars, qsVars, apiVars,
      lvVars>>
\* everything the three views of one status leave alone
outsideViews ==
    <<envVars, svcVars, pageVars, barVars, resVars, qsVars, apiVars,
      lvVars>>
\* everything the Query Resolver leaves alone
outsideResolver ==
    <<envVars, svcVars, pageVars, barVars, resVars, rcvVars, apiVars,
      lvVars>>
\* everything a call of lib/api.ts leaves alone, the catalog apart
outsideApi ==
    <<component, modelReady, svcVars, pageVars, barVars, resVars, rcvVars,
      qsVars, lvVars>>
\* everything LoadingView leaves alone
outsideLoading ==
    <<envVars, svcVars, pageVars, barVars, resVars, rcvVars, qsVars, apiVars>>

None == [kind |-> "none"]

\* ------------------------------------------------------------------ text

Str_open == <<"o", "p", "e", "n">>
Str_closed == <<"c", "l", "o", "s", "e", "d">>
Str_unknown == <<"u", "n", "k", "n", "o", "w", "n">>
Str_OPEN == <<"O", "P", "E", "N">>
Str_Closed == <<"C", "l", "o", "s", "e", "d">>
Str_UNKNOWN == <<"U", "N", "K", "N", "O", "W", "N">>
Str_openSpace == <<"o", "p", "e", "n", " ">>

\* String.prototype.toLowerCase, one character
ToLowerChar(c) ==
    CASE c = "C" -> "c" [] c = "D" -> "d" [] c = "E" -> "e" [] c = "K" -> "k"
      [] c = "L" -> "l" [] c = "N" -> "n" [] c = "O" -> "o" [] c = "P" -> "p"
      [] c = "S" -> "s" [] c = "U" -> "u" [] c = "W" -> "w" [] c = "A" -> "a"
      [] OTHER -> c

toLowerCase(s) == [i \in 1..Len(s) |-> ToLowerChar(s[i])]

IsWhiteSpace(c) == c = " "

RECURSIVE trimStart(_)
trimStart(s) ==
    IF s # <<>> /\ IsWhiteSpace(Head(s)) THEN trimStart(Tail(s)) ELSE s

RECURSIVE trimEnd(_)
trimEnd(s) ==
    IF s # <<>> /\ IsWhiteSpace(s[Len(s)])
    THEN trimEnd(SubSeq(s, 1, Len(s) - 1))
    ELSE s

\* String.prototype.trim
trim(s) == trimEnd(trimStart(s))

\* (x * 100).toFixed(0), x given in thousandths
toPercent(perMille) == (perMille + 5) \div 10

\* ------------------------------------------------------------ catalogue

Place1 ==
    [place_id |-> "p1", name |-> <<"a", "a">>, address |-> "1 Main St",
     category |-> "restaurant", located |-> TRUE, has_website |-> TRUE,
     has_hours |-> TRUE, source |-> "osm", age_days |-> 1, last_updated |-> 9]

Place2 ==
    [place_id |-> "p2", name |-> <<"a", " ", "a">>, address |-> "2 Side St",
     category |-> "kiosk", located |-> FALSE, has_website |-> FALSE,
     has_hours |-> FALSE, source |-> "import", age_days |-> 400,
     last_updated |-> 3]

Place3 ==
    [place_id |-> "p3", name |-> <<"a", "a">>, address |-> "3 High St",
     category |-> "restaurant", located |-> TRUE, has_website |-> FALSE,
     has_hours |-> TRUE, source |-> "osm", age_days |-> 1, last_updated |-> 9]

Place4 ==
    [place_id |-> "p4", name |-> <<"A", "a">>, address |-> "4 Low St",
     category |-> "bar", located |-> TRUE, has_website |-> TRUE,
     has_hours |-> FALSE, source |-> "osm", age_days |-> 30, last_updated |-> 5]

SeedCatalog == {Place1, Place2, Place3, Place4}

\* the ids a caller may ask for: the seeded ones and one that does not exist
PlaceIds == {"p1", "p2", "p0"}

\* Catalog Store boundary: getById(place_id) -> Place | absent
getById(id) ==
    IF \E p \in catalog : p.place_id = id
    THEN CHOOSE p \in catalog : p.place_id = id
    ELSE None

\* ------------------------------------------ Place Intelligence Engine
\* The backend (predict.py, features.py, search.py) is not part of the
\* sources at hand; this section follows sections 4.1 to 4.5 of the
\* specification.

NumFeatures == 6
ExplainCap == 5
NegligibleMagnitude == 0
RecencyHorizon == 365
FeatureNames ==
    <<"has_location", "category", "has_website", "has_hours", "source",
      "recency">>

FeatureName(i) == IF i <= Len(FeatureNames) THEN FeatureNames[i] ELSE "extra"

Min(a, b) == IF a < b THEN a ELSE b
Abs(n) == IF n < 0 THEN 0 - n ELSE n

\* 4.1: one feature of a place, sentinel 0 for what is absent or unseen
FeatureValue(i, place) ==
    CASE i = 1 -> IF place.located THEN 1 ELSE 0
      [] i = 2 -> IF place.category = "restaurant" THEN 1 ELSE 0
      [] i = 3 -> IF place.has_website THEN 1 ELSE 0
      [] i = 4 -> IF place.has_hours THEN 1 ELSE 0
      [] i = 5 -> IF place.source = "osm" THEN 1 ELSE 0
      [] i = 6 -> Min(place.age_days, RecencyHorizon)
      [] OTHER -> 0

\* 4.1: extract(place) -> FeatureVector, fixed order and length
extract(place) == [i \in 1..NumFeatures |-> FeatureValue(i, place)]

\* what the artifact may report as one feature's signed contribution
Weight(i) == (IF i % 2 = 0 THEN 0 - 1 ELSE 1) * (1 + (i % 3))

\* the contribution sets the opaque artifact may return: any subset of the
\* features contributes, the empty one being the degraded adapter
ContributionSets ==
    {[i \in 1..NumFeatures |-> IF i \in S THEN Weight(i) ELSE 0] :
        S \in SUBSET (1..NumFeatures)}

\* probabilities the artifact may report, in thousandths
Probabilities == {0, 499, 500, 1000}

\* 4.2: predict(model, vector): threshold 0.5 selects the label, the raw
\* probability is the confidence
predict(probability, contributions) ==
    [label |-> IF probability >= 500 THEN "OPEN" ELSE "CLOSED",
     probability |-> probability,
     contributions |-> contributions]

\* 4.3: rank by absolute magnitude descending, ties by declaration order
RanksBefore(c, i, j) ==
    \/ Abs(c[i]) > Abs(c[j])
    \/ Abs(c[i]) = Abs(c[j]) /\ i < j

RECURSIVE RankFeatures(_, _)
RankFeatures(c, rest) ==
    IF rest = {} THEN <<>>
    ELSE LET top == CHOOSE i \in rest :
                        \A j \in rest \ {i} : RanksBefore(c, i, j)
         IN  <<top>> \o RankFeatures(c, rest \ {top})

Take(s, n) == SubSeq(s, 1, Min(n, Len(s)))

Sentence(i, place, vector, c) ==
    [feature |-> FeatureName(i), value |-> vector[i],
     supports |-> IF c[i] > 0 THEN "OPEN" ELSE "CLOSED"]

GenericSentence == [feature |-> "generic", value |-> 0, supports |-> "none"]
UnavailableSentence(step) ==
    [feature |-> "unavailable", value |-> 0, supports |-> step]

\* 4.3: explain(place, vector, contributions): the top signals, one generic
\* string when nothing contributes
explain(place, vector, c) ==
    LET signals == {i \in 1..NumFeatures : Abs(c[i]) > NegligibleMagnitude}
        top == Take(RankFeatures(c, signals), ExplainCap)
    IN  IF top = <<>> THEN <<GenericSentence>>
        ELSE [k \in 1..Len(top) |-> Sentence(top[k], place, vector, c)]

\* 4.5 assemble
AssembleResult(place, failed, prediction, explanation) ==
    IF failed = "none"
    THEN [place_id |-> place.place_id, status |-> prediction.label,
          confidence |-> prediction.probability,
          explanation |-> explanation]
    ELSE [place_id |-> place.place_id, status |-> "UNKNOWN",
          confidence |-> 0,
          explanation |-> <<UnavailableSentence(failed)>>]

\* a response body that parses to `value`
Json(value) == [kind |-> "json", value |-> value]

\* the service boundary's JSON for a PredictionResult
WireStatus(status) ==
    CASE status = "OPEN" -> Str_open
      [] status = "CLOSED" -> Str_closed
      [] OTHER -> Str_unknown

PlaceDetailBody(place, result) ==
    [id |-> place.place_id, name |-> place.name, address |-> place.address,
     status |-> WireStatus(result.status), confidence |-> result.confidence,
     explanation |-> result.explanation]

\* ---- predictById, step by step (4.5): fetch, extract, classify,
\* explain, assemble
PredFetch ==
    /\ component = "PlacePage"
    /\ svcPc = "fetch"
    /\ svcTrace' = Append(svcTrace, "fetch")
    /\ LET place == getById(pageId)
       IN  IF place = None
           THEN /\ svcPc' = "notfound"
                /\ httpResp' = [kind |-> "response", status |-> 404,
                                body |-> None]
                /\ UNCHANGED svcPlace
           ELSE /\ svcPc' = "extract"
                /\ svcPlace' = place
                /\ UNCHANGED httpResp
    /\ UNCHANGED <<svcVector, svcPrediction, svcExplanation, svcFailed,
                   svcResult>>
    /\ UNCHANGED <<outsidePlace, pagePc, pageId, pageRes, pageFetch, pageView,
                   pageThrown>>

PredExtract(ok) ==
    /\ component = "PlacePage"
    /\ svcPc = "extract"
    /\ svcTrace' = Append(svcTrace, "extract")
    /\ IF ok
       THEN /\ svcVector' = extract(svcPlace)
            /\ svcPc' = "classify"
            /\ UNCHANGED svcFailed
       ELSE /\ svcFailed' = "extract"
            /\ svcPc' = "assemble"
            /\ UNCHANGED svcVector
    /\ UNCHANGED <<svcPlace, svcPrediction, svcExplanation, svcResult>>
    /\ UNCHANGED <<outsidePlace, pageVars>>

\* a classify step that does not ask whether the artifact was loaded
PredClassify_unguarded(ok, probability, contributions) ==
    /\ component = "PlacePage"
    /\ svcPc = "classify"
    /\ svcTrace' = Append(svcTrace, "classify")
    /\ IF ok
       THEN /\ svcPrediction' = predict(probability, contributions)
            /\ svcPc' = "explain"
            /\ UNCHANGED svcFailed
       ELSE /\ svcFailed' = "classify"
            /\ svcPc' = "assemble"
            /\ UNCHANGED svcPrediction
    /\ UNCHANGED <<svcPlace, svcVector, svcExplanation, svcResult>>
    /\ UNCHANGED <<outsidePlace, pageVars>>

PredClassify(ok, probability, contributions) ==
    /\ component = "PlacePage"
    /\ svcPc = "classify"
    /\ svcTrace' = Append(svcTrace, "classify")
    /\ IF modelReady /\ ok
       THEN /\ svcPrediction' = predict(probability, contributions)
            /\ svcPc' = "explain"
            /\ UNCHANGED svcFailed
       ELSE /\ svcFailed' = "classify"
            /\ svcPc' = "assemble"
            /\ UNCHANGED svcPrediction
    /\ UNCHANGED <<svcPlace, svcVector, svcExplanation, svcResult>>
    /\ UNCHANGED <<outsidePlace, pageVars>>

\* an explain step that hands control back to classify
PredExplain_loops(ok) ==
    /\ component = "PlacePage"
    /\ svcPc = "explain"
    /\ svcTrace' = Append(svcTrace, "explain")
    /\ IF ok
       THEN /\ svcExplanation' =
                  explain(svcPlace, svcVector, svcPrediction.contributions)
            /\ UNCHANGED svcFailed
       ELSE /\ svcFailed' = "explain"
            /\ UNCHANGED svcExplanation
    /\ svcPc' = IF Len(svcTrace) < 4 THEN "classify" ELSE "assemble"
    /\ UNCHANGED <<svcPlace, svcVector, svcPrediction, svcResult>>
    /\ UNCHANGED <<outsidePlace, pageVars>>

PredExplain(ok) ==
    /\ component = "PlacePage"
    /\ svcPc = "explain"
    /\ svcTrace' = Append(svcTrace, "explain")
    /\ IF ok
       THEN /\ svcExplanation' =
                  explain(svcPlace, svcVector, svcPrediction.contributions)
            /\ UNCHANGED svcFailed
       ELSE /\ svcFailed' = "explain"
            /\ UNCHANGED svcExplanation
    /\ svcPc' = "assemble"
    /\ UNCHANGED <<svcPlace, svcVector, svcPrediction, svcResult>>
    /\ UNCHANGED <<outsidePlace, pageVars>>

PredAssemble ==
    /\ component = "PlacePage"
    /\ svcPc = "assemble"
    /\ svcTrace' = Append(svcTrace, "assemble")
    /\ svcResult' =
          AssembleResult(svcPlace, svcFailed, svcPrediction, svcExplanation)
    /\ httpResp' = [kind |-> "response", status |-> 200,
                    body |-> Json(PlaceDetailBody(svcPlace, svcResult'))]
    /\ svcPc' = "done"
    /\ UNCHANGED <<svcPlace, svcVector, svcPrediction, svcExplanation,
                   svcFailed>>
    /\ UNCHANGED <<outsidePlace, pagePc, pageId, pageRes, pageFetch, pageView,
                   pageThrown>>

\* ---------------------------------------------- Query Resolver (4.4)

Limit == 3
MinEffectiveLength == 2

\* place_id ascending: the position of an id in the order of the ids
IdRank(id) ==
    CASE id = "p0" -> 0 [] id = "p1" -> 1 [] id = "p2" -> 2
      [] id = "p3" -> 3 [] id = "p4" -> 4

\* the two-character windows of a text padded with one blank on each side
Bigrams(text) ==
    LET padded == <<" ">> \o toLowerCase(text) \o <<" ">>
    IN  {<<padded[i], padded[i + 1]>> : i \in 1..(Len(padded) - 1)}

\* fuzzy name similarity, case-insensitive, in hundredths
Similarity(text, name) ==
    LET a == Bigrams(text)
        b == Bigrams(name)
    IN  (100 * Cardinality(a \cap b)) \div Cardinality(a \cup b)

Matching(text) == {p \in catalog : Similarity(text, p.name) > 0}

\* the orders in which the store may hand back a set of rows
Orderings(rows) ==
    {f \in [1..Cardinality(rows) -> rows] :
        \A i, j \in 1..Cardinality(rows) : i # j => f[i] # f[j]}

\* 4.4 step 3: score descending, then last_updated descending, then
\* place_id ascending
RanksAbove(text, p, q) ==
    LET sp == Similarity(text, p.name)
        sq == Similarity(text, q.name)
    IN  \/ sp > sq
        \/ sp = sq /\ p.last_updated > q.last_updated
        \/ sp = sq /\ p.last_updated = q.last_updated
                   /\ IdRank(p.place_id) < IdRank(q.place_id)

\* insertion of one row into a ranked sequence
RECURSIVE InsertRanked(_, _, _)
InsertRanked(text, p, ranked) ==
    IF ranked = <<>> THEN <<p>>
    ELSE IF RanksAbove(text, p, Head(ranked)) THEN <<p>> \o ranked
         ELSE <<Head(ranked)>> \o InsertRanked(text, p, Tail(ranked))

RECURSIVE Rank(_, _)
Rank(text, rows) ==
    IF rows = <<>> THEN <<>>
    ELSE InsertRanked(text, rows[Len(rows)],
                      Rank(text, SubSeq(rows, 1, Len(rows) - 1)))

\* a SearchCandidate as the search endpoint serialises it
CandidateBody(place, status, confidence) ==
    [id |-> place.place_id, name |-> place.name, address |-> place.address,
     status |-> WireStatus(status), confidence |-> confidence]

\* outcomes of the prediction step for one candidate
PredictionOutcomes ==
    {[error |-> TRUE, status |-> "UNKNOWN", confidence |-> 0],
     [error |-> FALSE, status |-> "OPEN", confidence |-> 875],
     [error |-> FALSE, status |-> "CLOSED", confidence |-> 499]}

\* the queries put to the resolver
ResolverQueries == {<<" ">>, <<"a", "a">>, <<"a", " ", "a">>}

\* 4.4 step 1: a query below the minimum effective length is answered with
\* the empty sequence
QsSearch(text) ==
    /\ component = "QueryResolver"
    /\ qsPc = "idle"
    /\ qsQuery' = text
    /\ qsPc' = IF Len(trim(text)) < MinEffectiveLength THEN "done"
               ELSE "retrieve"
    /\ UNCHANGED <<qsRetrieved, qsRanked, qsIndex, qsFailed, qsOut, qsLast,
                   qsRows, qsDropdown>>
    /\ UNCHANGED outsideResolver

\* 4.4 step 2: the store returns the matching rows, in its own order
QsRetrieve(rows) ==
    /\ component = "QueryResolver"
    /\ qsPc = "retrieve"
    /\ rows \in Orderings(Matching(qsQuery))
    /\ qsRetrieved' = rows
    /\ qsPc' = "rank"
    /\ UNCHANGED <<qsQuery, qsRanked, qsIndex, qsFailed, qsOut, qsLast,
                   qsRows, qsDropdown>>
    /\ UNCHANGED outsideResolver

\* 4.4 step 3: rank, keep the top `limit`
QsRank ==
    /\ component = "QueryResolver"
    /\ qsPc = "rank"
    /\ qsRanked' = Take(Rank(qsQuery, qsRetrieved), Limit)
    /\ qsRetrieved' = <<>>
    /\ qsPc' = "resolve"
    /\ UNCHANGED <<qsQuery, qsIndex, qsFailed, qsOut, qsLast, qsRows,
                   qsDropdown>>
    /\ UNCHANGED outsideResolver

\* a resolve step that leaves out the candidate whose prediction errored
QsResolve_drop(outcome) ==
    /\ component = "QueryResolver"
    /\ qsPc = "resolve"
    /\ qsIndex < Len(qsRanked)
    /\ qsIndex' = qsIndex + 1
    /\ qsFailed' = IF outcome.error THEN qsFailed \cup {qsIndex + 1}
                   ELSE qsFailed
    /\ qsOut' = IF outcome.error THEN qsOut
                ELSE Append(qsOut,
                            CandidateBody(qsRanked[qsIndex + 1],
                                          outcome.status, outcome.confidence))
    /\ UNCHANGED <<qsPc, qsQuery, qsRetrieved, qsRanked, qsLast, qsRows,
                   qsDropdown>>
    /\ UNCHANGED outsideResolver

\* 4.4 steps 4 and 5: the status of the next candidate; a prediction that
\* errors gives UNKNOWN
QsResolve(outcome) ==
    /\ component = "QueryResolver"
    /\ qsPc = "resolve"
    /\ qsIndex < Len(qsRanked)
    /\ qsIndex' = qsIndex + 1
    /\ qsFailed' = IF outcome.error THEN qsFailed \cup {qsIndex + 1}
                   ELSE qsFailed
    /\ qsOut' = Append(qsOut,
                       CandidateBody(qsRanked[qsIndex + 1], outcome.status,
                                     outcome.confidence))
    /\ UNCHANGED <<qsPc, qsQuery, qsRetrieved, qsRanked, qsLast, qsRows,
                   qsDropdown>>
    /\ UNCHANGED outsideResolver

\* 4.4 step 5: the assembled sequence is returned
QsReturn ==
    /\ component = "QueryResolver"
    /\ qsPc = "resolve"
    /\ qsIndex = Len(qsRanked)
    /\ qsPc' = "done"
    /\ UNCHANGED <<qsQuery, qsRetrieved, qsRanked, qsIndex, qsFailed, qsOut,
                   qsLast, qsRows, qsDropdown>>
    /\ UNCHANGED outsideResolver

\* ------------------------------------------------ lib/api.ts, PlacePage

Null == [kind |-> "null"]
NetworkError == [kind |-> "networkError"]
InvalidJson == [kind |-> "invalidJson"]

\* what getPlaceDetails may see of a response the backend produced: the
\* response itself, a gateway failure in its place, a dropped connection,
\* or a body that does not parse
Wire(resp) ==
    IF resp = None THEN {NetworkError}
    ELSE {resp, NetworkError,
          [kind |-> "response", status |-> 500, body |-> None]}
         \cup (IF resp.status = 200
               THEN {[kind |-> "response", status |-> 200,
                      body |-> InvalidJson]}
               ELSE {})

ResOk(res) == res.status >= 200 /\ res.status <= 299

Returned(v) == [threw |-> FALSE, value |-> v]
Threw(msg) == [threw |-> TRUE, value |-> [kind |-> "error", message |-> msg]]

\* res.json()
ResJson(res) ==
    IF res.body = InvalidJson THEN Threw("SyntaxError")
    ELSE Returned(res.body.value)

\* getPlaceDetails without its 404 branch
getPlaceDetails_no404(res) ==
    IF res = NetworkError THEN Threw("TypeError: fetch failed")
    ELSE IF ~ResOk(res) THEN Threw("Failed to get place details")
         ELSE ResJson(res)

getPlaceDetails(res) ==
    IF res = NetworkError THEN Threw("TypeError: fetch failed")
    ELSE IF ~ResOk(res)
         THEN IF res.status = 404 THEN Returned(Null)
              ELSE Threw("Failed to get place details")
         ELSE ResJson(res)

\* ResultCard with the branches of its explanation test exchanged
ResultCard_swapped(data) ==
    LET isReady == toLowerCase(data.status)
        isOpen == isReady = Str_open
        isClosed == isReady = Str_closed
    IN  [status |-> data.status,
         tone |-> IF isOpen THEN "emerald"
                  ELSE IF isClosed THEN "rose" ELSE "gray",
         confidence |-> IF isOpen \/ isClosed
                        THEN <<toPercent(data.confidence)>> ELSE <<>>,
         items |-> IF Len(data.explanation) > 0 THEN <<>>
                   ELSE data.explanation,
         fallback |-> (Len(data.explanation) > 0)]

\* the list items ResultCard renders, or none with the fallback paragraph
ResultCard(data) ==
    LET isReady == toLowerCase(data.status)
        isOpen == isReady = Str_open
        isClosed == isReady = Str_closed
    IN  [status |-> data.status,
         tone |-> IF isOpen THEN "emerald"
                  ELSE IF isClosed THEN "rose" ELSE "gray",
         confidence |-> IF isOpen \/ isClosed
                        THEN <<toPercent(data.confidence)>> ELSE <<>>,
         items |-> data.explanation,
         fallback |-> (Len(data.explanation) = 0)]

NoView == [kind |-> "none", card |-> None]

\* PlacePage without the try/catch around getPlaceDetails
PlacePage_noCatch(outcome) ==
    IF outcome.threw
    THEN [thrown |-> TRUE, view |-> NoView]
    ELSE IF outcome.value = Null
         THEN [thrown |-> FALSE,
               view |-> [kind |-> "notFound", card |-> None]]
         ELSE [thrown |-> FALSE,
               view |-> [kind |-> "card", card |-> ResultCard(outcome.value)]]

\* PlacePage after getPlaceDetails settled with `outcome`
PlacePage(outcome) ==
    LET fetchError == outcome.threw
        place == IF outcome.threw THEN Null ELSE outcome.value
    IN  IF fetchError
        THEN [thrown |-> FALSE, view |-> [kind |-> "fetchError", card |-> None]]
        ELSE IF place = Null
             THEN [thrown |-> FALSE,
                   view |-> [kind |-> "notFound", card |-> None]]
             ELSE [thrown |-> FALSE,
                   view |-> [kind |-> "card", card |-> ResultCard(place)]]

\* the route /place/{id} is entered: PlacePage awaits getPlaceDetails(id),
\* and the request reaches predictById
PageOpen(id) ==
    /\ component = "PlacePage"
    /\ pagePc = "idle"
    /\ pagePc' = "awaiting"
    /\ pageId' = id
    /\ svcPc' = "fetch"
    /\ svcTrace' = <<>>
    /\ svcFailed' = "none"
    /\ svcPlace' = None
    /\ svcVector' = <<>>
    /\ svcPrediction' = None
    /\ svcExplanation' = <<>>
    /\ svcResult' = None
    /\ httpResp' = None
    /\ UNCHANGED <<outsidePlace, pageRes, pageFetch, pageView, pageThrown>>

\* getPlaceDetails settles and PlacePage returns its view
PageSettle(res) ==
    /\ component = "PlacePage"
    /\ pagePc = "awaiting"
    /\ res \in Wire(httpResp)
    /\ pageRes' = res
    /\ pageFetch' = getPlaceDetails(res)
    /\ pageView' = PlacePage(pageFetch').view
    /\ pageThrown' = PlacePage(pageFetch').thrown
    /\ pagePc' = "rendered"
    /\ UNCHANGED <<outsidePlace, svcVars, pageId, httpResp>>

\* the user leaves the page
PageLeave ==
    /\ component = "PlacePage"
    /\ pagePc = "rendered"
    /\ svcPc \in {"done", "notfound"}
    /\ pagePc' = "idle"
    /\ pageId' = "p0"
    /\ pageRes' = None
    /\ pageFetch' = None
    /\ pageView' = NoView
    /\ pageThrown' = FALSE
    /\ svcPc' = "idle"
    /\ svcTrace' = <<>>
    /\ svcFailed' = "none"
    /\ svcPlace' = None
    /\ svcVector' = <<>>
    /\ svcPrediction' = None
    /\ svcExplanation' = <<>>
    /\ svcResult' = None
    /\ httpResp' = None
    /\ UNCHANGED outsidePlace

\* ------------------------------------------- searchPlaces and SearchBar

CandidateA ==
    [id |-> "p1", name |-> <<"a", "a">>, address |-> "1 Main St",
     status |-> Str_open, confidence |-> 875]
CandidateB ==
    [id |-> "p2", name |-> <<"a", " ", "a">>, address |-> "2 Side St",
     status |-> Str_unknown, confidence |-> 0]

\* the lists the search endpoint may answer with
SearchAnswers == {<<>>, <<CandidateA>>, <<CandidateB, CandidateA>>}

\* the list the search endpoint answers a query with while the catalog
\* stays as it is: the same query, the same list
AnswerFor(query) ==
    IF trim(query) = <<"a", "a">> THEN <<CandidateA>>
    ELSE <<CandidateB, CandidateA>>

\* what searchPlaces may see of its request
SearchWire ==
    {[kind |-> "response", status |-> 200, body |-> Json(list)] :
        list \in SearchAnswers}
    \cup {[kind |-> "response", status |-> 200, body |-> InvalidJson],
          [kind |-> "response", status |-> 500, body |-> None],
          [kind |-> "response", status |-> 404, body |-> None],
          NetworkError}

\* what searchPlaces(query) may see of its request: the endpoint's answer
\* to that query, or a failure
SearchWireFor(query) ==
    {[kind |-> "response", status |-> 200, body |-> Json(AnswerFor(query))],
     [kind |-> "response", status |-> 200, body |-> InvalidJson],
     [kind |-> "response", status |-> 500, body |-> None],
     [kind |-> "response", status |-> 404, body |-> None],
     NetworkError}

searchPlaces(res) ==
    IF res = NetworkError THEN Threw("TypeError: fetch failed")
    ELSE IF ~ResOk(res) THEN Threw("Failed to search places")
         ELSE ResJson(res)

\* the texts typed, pasted or picked into the input
Queries ==
    {<<>>, <<" ">>, <<"a">>, <<" ", "a", " ">>, <<"a", "a">>,
     <<"a", " ", "a">>, <<" ", "a", "a">>}

MinQueryLength == 2
MaxInflight == 2

\* the search effect without the cleanup that clears the previous timer
SearchEffect_noCleanup(query, results, timers) ==
    IF Len(trim(query)) < MinQueryLength
    THEN [results |-> <<>>, timers |-> timers]
    ELSE [results |-> results, timers |-> timers \cup {query}]

\* the search effect for a new query: the previous run's cleanup clears
\* its timer, then the body runs
SearchEffect(query, results, timers) ==
    IF Len(trim(query)) < MinQueryLength
    THEN [results |-> <<>>, timers |-> {}]
    ELSE [results |-> results, timers |-> {query}]

\* setQuery(text) and the effect it triggers
SetQuery(text) ==
    /\ barQuery' = text
    /\ IF text = barQuery
       THEN UNCHANGED <<barResults, barTimers>>
       ELSE LET eff == SearchEffect(text, barResults, barTimers)
            IN  /\ barResults' = eff.results
                /\ barTimers' = eff.timers

\* onChange of the input
BarChange(text) ==
    /\ component = "SearchBar"
    /\ text # barQuery
    /\ SetQuery(text)
    /\ barShowDropdown' = IF Len(text) > 0 THEN TRUE ELSE barShowDropdown
    /\ UNCHANGED <<barLoading, barInflight, barSettled, barThrown, barPushed>>
    /\ UNCHANGED barLastSent
    /\ UNCHANGED outsideBar

\* the debounce timer fires: setLoading(true), and searchPlaces(query) with
\* the query the callback captured
BarTimerFire(captured) ==
    /\ component = "SearchBar"
    /\ captured \in barTimers
    /\ BagCardinality(barInflight) < MaxInflight
    /\ barTimers' = barTimers \ {captured}
    /\ barLoading' = TRUE
    /\ barInflight' = barInflight (+) SetToBag({captured})
    /\ barLastSent' = [kind |-> "sent", q |-> captured]
    /\ UNCHANGED <<barQuery, barResults, barShowDropdown, barSettled,
                   barThrown, barPushed>>
    /\ UNCHANGED outsideBar

\* the rest of the debounce callback, once searchPlaces settled: try,
\* catch, finally
DebounceCallback(outcome, results, showDropdown) ==
    IF ~outcome.threw
    THEN [results |-> outcome.value, showDropdown |-> TRUE,
          settled |-> "data", thrown |-> FALSE, loading |-> FALSE]
    ELSE [results |-> results, showDropdown |-> showDropdown,
          settled |-> "logged", thrown |-> FALSE, loading |-> FALSE]

BarSettle(sent, res) ==
    /\ component = "SearchBar"
    /\ BagIn(sent, barInflight)
    /\ res \in SearchWireFor(sent)
    /\ barInflight' = barInflight (-) SetToBag({sent})
    /\ LET after == DebounceCallback(searchPlaces(res), barResults,
                                     barShowDropdown)
       IN  /\ barResults' = after.results
           /\ barShowDropdown' = after.showDropdown
           /\ barSettled' = after.settled
           /\ barThrown' = after.thrown
           /\ barLoading' = after.loading
    /\ UNCHANGED <<barQuery, barTimers, barPushed>>
    /\ UNCHANGED barLastSent
    /\ UNCHANGED outsideBar

\* onFocus of the input
BarFocus ==
    /\ component = "SearchBar"
    /\ Len(barResults) > 0
    /\ ~barShowDropdown
    /\ barShowDropdown' = TRUE
    /\ UNCHANGED <<barQuery, barResults, barLoading, barTimers, barInflight,
                   barSettled, barThrown, barPushed>>
    /\ UNCHANGED barLastSent
    /\ UNCHANGED outsideBar

\* mousedown outside the component
BarClickOutside ==
    /\ component = "SearchBar"
    /\ barShowDropdown
    /\ barShowDropdown' = FALSE
    /\ UNCHANGED <<barQuery, barResults, barLoading, barTimers, barInflight,
                   barSettled, barThrown, barPushed>>
    /\ UNCHANGED barLastSent
    /\ UNCHANGED outsideBar

\* handleSearchSubmit: the route pushed, or none
handleSearchSubmit(query, pushed) ==
    IF trim(query) # <<>>
    THEN [pushed |-> [kind |-> "search", q |-> query], hide |-> TRUE]
    ELSE [pushed |-> pushed, hide |-> FALSE]

\* Enter in the input
BarSubmit ==
    /\ component = "SearchBar"
    /\ LET did == handleSearchSubmit(barQuery, barPushed)
       IN  /\ barPushed' = did.pushed
           /\ barShowDropdown' = IF did.hide THEN FALSE ELSE barShowDropdown
    /\ UNCHANGED <<barQuery, barResults, barLoading, barTimers, barInflight,
                   barSettled, barThrown>>
    /\ UNCHANGED barLastSent
    /\ UNCHANGED outsideBar

\* the dropdown is on screen
DropdownShown == barShowDropdown /\ Len(barResults) > 0

\* click on row i of the dropdown
BarPick(i) ==
    /\ component = "SearchBar"
    /\ DropdownShown
    /\ i \in 1..Len(barResults)
    /\ SetQuery(barResults[i].name)
    /\ barShowDropdown' = FALSE
    /\ barPushed' = [kind |-> "place", q |-> barResults[i].id]
    /\ UNCHANGED <<barLoading, barInflight, barSettled, barThrown>>
    /\ UNCHANGED barLastSent
    /\ UNCHANGED outsideBar

\* -------------------------------------------------------- SearchResults

\* the values of the q parameter of /search
ResultQueries == {<<>>, <<" ">>, <<"a", "a">>, <<"a", " ", "a">>}

MaxPending == 2

\* an effect whose cleanup is missing: active stays true
Deactivate_none(bag) == bag

\* the cleanup of the running effect: active = false, seen by every timer
\* and promise callback that effect created. The run for an empty query
\* returns before the cleanup is handed over, so its timer stays active.
Deactivate(bag) ==
    LET cleaned(e) == "kind" \notin DOMAIN e \/ e.kind # "clear"
        off(e) == IF cleaned(e) THEN [e EXCEPT !.active = FALSE] ELSE e
        on(e) == [e EXCEPT !.active = TRUE]
    IN  [x \in {off(e) : e \in BagToSet(bag)} |->
            IF cleaned(x) THEN CopiesIn(x, bag) + CopiesIn(on(x), bag)
            ELSE CopiesIn(x, bag)]

\* the query prop has moved on: the requests under way were issued for an
\* earlier query
Supersede(bag) ==
    LET old(e) == [e EXCEPT !.current = FALSE]
        new(e) == [e EXCEPT !.current = TRUE]
    IN  [x \in {old(e) : e \in BagToSet(bag)} |->
            CopiesIn(x, bag) + CopiesIn(new(x), bag)]

\* the effect body for a query: the timers and the request it creates
ResultsEffect(query) ==
    IF query = <<>>
    THEN [timers |-> SetToBag({[kind |-> "clear", active |-> TRUE]}),
          requests |-> EmptyBag]
    ELSE [timers |-> SetToBag({[kind |-> "load", active |-> TRUE]}),
          requests |-> SetToBag({[q |-> query, active |-> TRUE,
                                  current |-> TRUE]})]

\* the query prop changes: cleanup of the previous effect, then the effect
ResNavigate(query) ==
    /\ component = "SearchResults"
    /\ query # resQuery
    /\ BagCardinality(resInflight) < MaxPending
    /\ BagCardinality(resTimers) < MaxPending
    /\ resQuery' = query
    /\ resTimers' = Deactivate(resTimers) (+) ResultsEffect(query).timers
    /\ resInflight' = Supersede(Deactivate(resInflight))
                           (+) ResultsEffect(query).requests
    /\ UNCHANGED <<resResults, resLoading, resSettled, resThrown, resLate>>
    /\ UNCHANGED outsideResults

\* a zero-delay timer fires
ResTimerFire(timer) ==
    /\ component = "SearchResults"
    /\ BagIn(timer, resTimers)
    /\ resTimers' = resTimers (-) SetToBag({timer})
    /\ resResults' = IF timer.active /\ timer.kind = "clear" THEN <<>>
                     ELSE resResults
    /\ resLoading' = IF timer.active /\ timer.kind = "load" THEN TRUE
                     ELSE resLoading
    /\ UNCHANGED <<resQuery, resInflight, resSettled, resThrown, resLate>>
    /\ UNCHANGED outsideResults

\* .then, .catch and .finally of the effect's promise
PromiseChain(outcome, active, results, loading) ==
    [results |-> IF ~outcome.threw /\ active THEN outcome.value ELSE results,
     settled |-> IF outcome.threw THEN "logged" ELSE "data",
     thrown |-> FALSE,
     loading |-> IF active THEN FALSE ELSE loading]

\* searchPlaces settles for one request
ResSettle(request, res) ==
    /\ component = "SearchResults"
    /\ BagIn(request, resInflight)
    /\ resInflight' = resInflight (-) SetToBag({request})
    /\ LET after == PromiseChain(searchPlaces(res), request.active,
                                 resResults, resLoading)
       IN  /\ resResults' = after.results
           /\ resSettled' = after.settled
           /\ resThrown' = after.thrown
           /\ resLoading' = after.loading
    /\ resLate' = IF request.current THEN resLate
                  ELSE [kind |-> "late", q |-> request.q,
                        threw |-> searchPlaces(res).threw,
                        list |-> IF searchPlaces(res).threw THEN <<>>
                                 ELSE searchPlaces(res).value]
    /\ UNCHANGED <<resQuery, resTimers>>
    /\ UNCHANGED outsideResults

\* ---------------------------------------------------------- what is shown

StatusBadge(status) ==
    LET isReady == toLowerCase(status)
    IN  IF isReady = Str_open THEN "Open"
        ELSE IF isReady = Str_closed THEN "Closed" ELSE "Unknown"

\* a SearchResults row that shows the confidence whatever the status
ResultRow_always(res) ==
    [id |-> res.id, name |-> res.name, address |-> res.address,
     badge |-> StatusBadge(res.status),
     confidence |-> <<toPercent(res.confidence)>>]

\* one row of SearchResults
ResultRow(res) ==
    [id |-> res.id, name |-> res.name, address |-> res.address,
     badge |-> StatusBadge(res.status),
     confidence |-> IF res.status = Str_open \/ res.status = Str_closed
                    THEN <<toPercent(res.confidence)>> ELSE <<>>]

\* one row of the SearchBar dropdown
DropdownRow(result) ==
    [id |-> result.id, name |-> result.name, address |-> result.address,
     badge |-> StatusBadge(result.status),
     confidence |-> IF result.status = Str_open \/ result.status = Str_closed
                    THEN <<toPercent(result.confidence)>> ELSE <<>>]

\* a list rendering that puts each new row in front
RECURSIVE ResultRows_reversed(_)
ResultRows_reversed(list) ==
    IF list = <<>> THEN <<>>
    ELSE ResultRows_reversed(Tail(list)) \o <<ResultRow(Head(list))>>

\* results.map(...) of SearchResults
RECURSIVE ResultRows(_)
ResultRows(list) ==
    IF list = <<>> THEN <<>>
    ELSE <<ResultRow(Head(list))>> \o ResultRows(Tail(list))

\* results.map(...) of the dropdown
RECURSIVE DropdownRows(_)
DropdownRows(list) ==
    IF list = <<>> THEN <<>>
    ELSE <<DropdownRow(Head(list))>> \o DropdownRows(Tail(list))

\* what SearchResults returns
SearchResultsView(query, results, loading) ==
    IF loading THEN [kind |-> "spinner", rows |-> <<>>]
    ELSE IF Len(results) = 0 /\ query # <<>>
         THEN [kind |-> "noResults", rows |-> <<>>]
         ELSE IF Len(results) = 0 /\ query = <<>>
              THEN [kind |-> "null", rows |-> <<>>]
              ELSE [kind |-> "list", rows |-> ResultRows(results)]

\* the rows of the dropdown, none when it is not shown
DropdownView(showDropdown, results) ==
    IF showDropdown /\ Len(results) > 0
    THEN DropdownRows(results)
    ELSE <<>>

\* ------------------------------------- one status through the three views

\* status strings a response may carry
Statuses ==
    {Str_open, Str_closed, Str_unknown, Str_OPEN, Str_Closed, Str_UNKNOWN,
     Str_openSpace, <<>>}

\* confidences a response may carry, in thousandths
Confidences == {0, 499, 875, 1000}

Received ==
    [id |-> "p1", name |-> <<"a", "a">>, address |-> "1 Main St",
     status |-> rcvStatus, confidence |-> rcvConfidence,
     explanation |-> <<GenericSentence>>]

\* a response carrying this status and confidence arrives
Receive(status, confidence) ==
    /\ component = "Views"
    /\ <<status, confidence>> # <<rcvStatus, rcvConfidence>>
    /\ rcvStatus' = status
    /\ rcvConfidence' = confidence
    /\ shownCard' = None
    /\ shownRow' = None
    /\ shownDropdownRow' = None
    /\ UNCHANGED outsideViews

ShowCard ==
    /\ component = "Views"
    /\ shownCard = None
    /\ shownCard' = ResultCard(Received)
    /\ UNCHANGED <<rcvStatus, rcvConfidence, shownRow, shownDropdownRow>>
    /\ UNCHANGED outsideViews

ShowRow ==
    /\ component = "Views"
    /\ shownRow = None
    /\ shownRow' = ResultRow(Received)
    /\ UNCHANGED <<rcvStatus, rcvConfidence, shownCard, shownDropdownRow>>
    /\ UNCHANGED outsideViews

ShowDropdownRow ==
    /\ component = "Views"
    /\ shownDropdownRow = None
    /\ shownDropdownRow' = DropdownRow(Received)
    /\ UNCHANGED <<rcvStatus, rcvConfidence, shownCard, shownRow>>
    /\ UNCHANGED outsideViews

\* ------------------------------- a search answer in the two result lists

Ids(list) == [i \in 1..Len(list) |-> list[i].id]

\* SearchResults and the dropdown render the answer
QsShow ==
    /\ component = "QueryResolver"
    /\ qsPc = "done"
    /\ qsRows' = SearchResultsView(qsQuery, qsOut, FALSE).rows
    /\ qsDropdown' = DropdownView(TRUE, qsOut)
    /\ qsPc' = "shown"
    /\ UNCHANGED <<qsQuery, qsRetrieved, qsRanked, qsIndex, qsFailed, qsOut,
                   qsLast>>
    /\ UNCHANGED outsideResolver

\* the next search begins; the answer just shown is remembered
QsAgain ==
    /\ component = "QueryResolver"
    /\ qsPc = "shown"
    /\ qsLast' = [kind |-> "answer", q |-> qsQuery, ids |-> Ids(qsOut)]
    /\ qsPc' = "idle"
    /\ qsQuery' = <<>>
    /\ qsRanked' = <<>>
    /\ qsIndex' = 0
    /\ qsFailed' = {}
    /\ qsOut' = <<>>
    /\ qsRows' = <<>>
    /\ qsDropdown' = <<>>
    /\ UNCHANGED qsRetrieved
    /\ UNCHANGED outsideResolver

\* ------------------------------------- the requests lib/api.ts sends
\* SearchBar sits in the layout of every page, so its searchPlaces calls
\* run alongside the getPlaceDetails call of the page shown.

\* fetch(url) with no init argument: a GET without a body
Fetch(path, arg) ==
    [method |-> "GET", path |-> path, arg |-> arg, body |-> None]

\* getPlaceDetails asking the service to remove the row
getPlaceDetailsRequest_delete(id) ==
    [method |-> "DELETE", path |-> "place", arg |-> <<id>>, body |-> None]

\* the request of searchPlaces(query)
searchPlacesRequest(query) == Fetch("search", query)

\* the request of getPlaceDetails(id)
getPlaceDetailsRequest(id) == Fetch("place", <<id>>)

\* the rows of the store once the service has served a request: both
\* operations of the service boundary only read; a DELETE of /place/{id},
\* were one sent, would take the row away
CatalogAfter(request, rows) ==
    IF request.method = "GET" THEN rows
    ELSE IF request.method = "DELETE" /\ request.path = "place"
         THEN {p \in rows : <<p.place_id>> # request.arg}
         ELSE rows

\* the queries and ids the calls are made with
ApiQueries == {<<>>, <<"a", "a">>}
MaxCalls == 3

\* a component calls searchPlaces(query)
ApiSearchPlaces(query) ==
    /\ component = "Api"
    /\ BagCardinality(apiPending) + Len(apiServed) < MaxCalls
    /\ apiPending' = apiPending (+) SetToBag({searchPlacesRequest(query)})
    /\ UNCHANGED <<apiServed, catalog>>
    /\ UNCHANGED outsideApi

\* a component calls getPlaceDetails(id)
ApiGetPlaceDetails(id) ==
    /\ component = "Api"
    /\ BagCardinality(apiPending) + Len(apiServed) < MaxCalls
    /\ apiPending' = apiPending (+) SetToBag({getPlaceDetailsRequest(id)})
    /\ UNCHANGED <<apiServed, catalog>>
    /\ UNCHANGED outsideApi

\* the service serves one of the requests under way, in any order
ApiServe(request) ==
    /\ component = "Api"
    /\ BagIn(request, apiPending)
    /\ apiPending' = apiPending (-) SetToBag({request})
    /\ apiServed' = Append(apiServed, request)
    /\ catalog' = CatalogAfter(request, catalog)
    /\ UNCHANGED outsideApi

\* ---------------------------------------------------------- LoadingView

\* messages.length
NumMessages == 4
\* the onComplete props the parent passes over the life of one LoadingView,
\* each a new function identity
MaxProps == 3

\* the effect body: setInterval, its callback capturing this run's prop
LoadingEffect(onComplete) == [kind |-> "interval", onComplete |-> onComplete]

\* the updater handed to setIndex by the interval callback
IndexUpdater(prev, interval, timeouts) ==
    IF prev = NumMessages - 1
    THEN [index |-> prev, interval |-> None,
          timeouts |-> timeouts (+) SetToBag({interval.onComplete})]
    ELSE [index |-> prev + 1, interval |-> interval, timeouts |-> timeouts]

\* the interval fires
LvTick ==
    /\ component = "LoadingView"
    /\ lvInterval # None
    /\ LET after == IndexUpdater(lvIndex, lvInterval, lvTimeouts)
       IN  /\ lvIndex' = after.index
           /\ lvInterval' = after.interval
           /\ lvTimeouts' = after.timeouts
    /\ UNCHANGED <<lvMounted, lvOnComplete, lvCalls>>
    /\ UNCHANGED outsideLoading

\* the parent renders with a new onComplete: cleanup of the running effect
\* (clearInterval), then the effect again
LvRerender ==
    /\ component = "LoadingView"
    /\ lvMounted
    /\ lvOnComplete < MaxProps
    /\ lvOnComplete' = lvOnComplete + 1
    /\ lvInterval' = LoadingEffect(lvOnComplete + 1)
    /\ UNCHANGED <<lvMounted, lvIndex, lvTimeouts, lvCalls>>
    /\ UNCHANGED outsideLoading

\* the component is unmounted: cleanup of the running effect
LvUnmount ==
    /\ component = "LoadingView"
    /\ lvMounted
    /\ lvMounted' = FALSE
    /\ lvInterval' = None
    /\ UNCHANGED <<lvIndex, lvOnComplete, lvTimeouts, lvCalls>>
    /\ UNCHANGED outsideLoading

\* a pending setTimeout(onComplete, 1000) fires: onComplete is invoked
LvTimeout(onComplete) ==
    /\ component = "LoadingView"
    /\ BagIn(onComplete, lvTimeouts)
    /\ lvTimeouts' = lvTimeouts (-) SetToBag({onComplete})
    /\ lvCalls' = Append(lvCalls, [onComplete |-> onComplete,
                                   mounted |-> lvMounted, index |-> lvIndex])
    /\ UNCHANGED <<lvMounted, lvIndex, lvOnComplete, lvInterval>>
    /\ UNCHANGED outsideLoading

\* ------------------------------------------------------------ the system

Components ==
    {"PlacePage", "SearchBar", "SearchResults", "Views", "QueryResolver",
     "Api", "LoadingView"}

Init ==
    /\ component \in Components
    /\ catalog = SeedCatalog
    /\ modelReady \in (IF component = "PlacePage" THEN BOOLEAN ELSE {TRUE})
    /\ svcPc = "idle"
    /\ svcPlace = None
    /\ svcVector = <<>>
    /\ svcPrediction = None
    /\ svcExplanation = <<>>
    /\ svcFailed = "none"
    /\ svcTrace = <<>>
    /\ svcResult = None
    /\ httpResp = None
    /\ pagePc = "idle"
    /\ pageId = "p0"
    /\ pageRes = None
    /\ pageFetch = None
    /\ pageView = NoView
    /\ pageThrown = FALSE
    /\ barQuery = <<>>
    /\ barResults = <<>>
    /\ barLoading = FALSE
    /\ barShowDropdown = FALSE
    /\ barTimers = {}
    /\ barInflight = EmptyBag
    /\ barSettled = "none"
    /\ barThrown = FALSE
    /\ barPushed = None
    /\ barLastSent = None
    /\ resQuery = <<>>
    /\ resResults = <<>>
    /\ resLoading = FALSE
    /\ resTimers = ResultsEffect(<<>>).timers
    /\ resInflight = EmptyBag
    /\ resSettled = "none"
    /\ resThrown = FALSE
    /\ resLate = None
    /\ rcvStatus = Str_open
    /\ rcvConfidence = 0
    /\ shownCard = None
    /\ shownRow = None
    /\ shownDropdownRow = None
    /\ qsPc = "idle"
    /\ qsQuery = <<>>
    /\ qsRetrieved = <<>>
    /\ qsRanked = <<>>
    /\ qsIndex = 0
    /\ qsFailed = {}
    /\ qsOut = <<>>
    /\ qsLast = None
    /\ qsRows = <<>>
    /\ qsDropdown = <<>>
    /\ apiPending = EmptyBag
    /\ apiServed = <<>>
    /\ lvMounted = TRUE
    /\ lvIndex = 0
    /\ lvOnComplete = 1
    /\ lvInterval = LoadingEffect(1)
    /\ lvTimeouts = EmptyBag
    /\ lvCalls = <<>>

Next ==
    \/ \E id \in PlaceIds : PageOpen(id)
    \/ PredFetch
    \/ \E ok \in BOOLEAN : PredExtract(ok)
    \/ \E ok \in BOOLEAN, p \in Probabilities, c \in ContributionSets :
          PredClassify(ok, p, c)
    \/ \E ok \in BOOLEAN : PredExplain(ok)
    \/ PredAssemble
    \/ \E res \in Wire(httpResp) : PageSettle(res)
    \/ PageLeave
    \/ \E text \in Queries : BarChange(text)
    \/ \E captured \in Queries : BarTimerFire(captured)
    \/ \E sent \in Queries, res \in SearchWire : BarSettle(sent, res)
    \/ BarFocus
    \/ BarClickOutside
    \/ BarSubmit
    \/ \E i \in 1..2 : BarPick(i)
    \/ \E query \in ResultQueries : ResNavigate(query)
    \/ \E timer \in BagToSet(resTimers) : ResTimerFire(timer)
    \/ \E request \in BagToSet(resInflight), res \in SearchWire :
          ResSettle(request, res)
    \/ \E status \in Statuses, confidence \in Confidences :
          Receive(status, confidence)
    \/ ShowCard
    \/ ShowRow
    \/ ShowDropdownRow
    \/ \E text \in ResolverQueries : QsSearch(text)
    \/ \E rows \in Orderings(Matching(qsQuery)) : QsRetrieve(rows)
    \/ QsRank
    \/ \E outcome \in PredictionOutcomes : QsResolve(outcome)
    \/ QsReturn
    \/ QsShow
    \/ QsAgain
    \/ \E query \in ApiQueries : ApiSearchPlaces(query)
    \/ \E id \in PlaceIds : ApiGetPlaceDetails(id)
    \/ \E request \in BagToSet(apiPending) : ApiServe(request)
    \/ LvTick
    \/ LvRerender
    \/ LvUnmount
    \/ \E onComplete \in BagToSet(lvTimeouts) : LvTimeout(onComplete)

Spec == Init /\ [][Next]_vars

\* ----------------------------------------------------------- properties

IsOpenOrClosed(status) == toLowerCase(status) \in {Str_open, Str_closed}

\* C1: a lookup of an id that does not exist never yields a prediction:
\* when the request answers 404, getPlaceDetails returns null without
\* throwing and PlacePage shows the not-found view, with no ResultCard.
C1_NotFoundIsDistinct ==
    pagePc = "rendered" =>
        /\ (pageRes # NetworkError /\ pageRes.status = 404) =>
               /\ pageFetch = Returned(Null)
               /\ pageView.kind = "notFound"
               /\ pageView.card = None
               /\ ~pageThrown
        /\ getById(pageId) = None =>
               /\ pageView.kind # "card"
               /\ pageView.card = None

C1_Witness ==
    /\ pagePc = "rendered"
    /\ pageId = "p0"
    /\ pageRes # NetworkError
    /\ pageRes.status = 404
    /\ pageView.kind = "notFound"

\* C3: for a place that exists predictById ends with a PredictionResult;
\* when the classifier was not loaded, or a step failed, the status is
\* UNKNOWN with an explanatory string; OPEN or CLOSED only when the
\* classifier was evaluated. A request under way can always take a step.
C3_UnknownWhenNotEvaluated ==
    /\ svcPc = "done" =>
          /\ svcResult # None
          /\ svcResult.place_id = pageId
          /\ svcResult.status \in {"OPEN", "CLOSED", "UNKNOWN"}
          /\ httpResp.status = 200
          /\ (~modelReady \/ svcFailed # "none") =>
                 /\ svcResult.status = "UNKNOWN"
                 /\ Len(svcResult.explanation) >= 1
          /\ svcResult.status \in {"OPEN", "CLOSED"} =>
                 /\ modelReady
                 /\ svcFailed = "none"
                 /\ svcPrediction # None
                 /\ svcResult.status = svcPrediction.label
    /\ svcPc \in {"extract", "classify", "explain", "assemble"} =>
          ENABLED (\/ \E ok \in BOOLEAN : PredExtract(ok)
                   \/ \E ok \in BOOLEAN, p \in Probabilities,
                         c \in ContributionSets : PredClassify(ok, p, c)
                   \/ \E ok \in BOOLEAN : PredExplain(ok)
                   \/ PredAssemble)

C3_Witness ==
    /\ svcPc = "done"
    /\ ~modelReady
    /\ svcFailed = "classify"
    /\ svcResult.status = "UNKNOWN"

\* C9: an OPEN or CLOSED prediction carries between one and ExplainCap
\* explanation strings, and ResultCard lists between one and ExplainCap
\* items for it.
C9_ExplanationBounded ==
    /\ (svcPc = "done" /\ svcResult.status \in {"OPEN", "CLOSED"}) =>
          /\ Len(svcResult.explanation) >= 1
          /\ Len(svcResult.explanation) <= ExplainCap
    /\ (pageView.kind = "card" /\ IsOpenOrClosed(pageView.card.status)) =>
          /\ Len(pageView.card.items) >= 1
          /\ Len(pageView.card.items) <= ExplainCap
          /\ ~pageView.card.fallback

C9_Witness ==
    /\ pageView.kind = "card"
    /\ IsOpenOrClosed(pageView.card.status)
    /\ Len(pageView.card.items) = ExplainCap
    /\ Cardinality({i \in 1..NumFeatures :
                      svcPrediction.contributions[i] # 0}) > ExplainCap

StepOrder == <<"fetch", "extract", "classify", "explain", "assemble">>
StepIndex(step) == CHOOSE i \in 1..Len(StepOrder) : StepOrder[i] = step

\* C10: the steps of predictById run in the order fetch, extract,
\* classify, explain, assemble, each at most once and only after the one
\* before it ended; nothing runs after a fetch that found no place.
C10_FixedOrder ==
    /\ \A i, j \in 1..Len(svcTrace) :
          i < j => StepIndex(svcTrace[i]) < StepIndex(svcTrace[j])
    /\ svcTrace # <<>> => svcTrace[1] = "fetch"
    /\ (svcPc \in {"fetch", "extract", "classify", "explain", "assemble"}) =>
          /\ IF svcPc = "fetch" THEN svcTrace = <<>>
             ELSE svcTrace # <<>>
                  /\ StepIndex(svcTrace[Len(svcTrace)]) < StepIndex(svcPc)
          /\ (svcFailed = "none" =>
                 svcTrace = SubSeq(StepOrder, 1, StepIndex(svcPc) - 1))
    /\ (svcPc = "done" /\ svcFailed = "none") => svcTrace = StepOrder
    /\ svcPc = "done" => svcTrace[Len(svcTrace)] = "assemble"
    /\ svcPc = "notfound" => svcTrace = <<"fetch">>
    /\ (svcPc # "idle" /\ getById(pageId) = None) =>
          svcTrace \in {<<>>, <<"fetch">>}

C10_Witness ==
    /\ svcPc = "done"
    /\ svcFailed = "none"
    /\ svcTrace = StepOrder

\* C2 as claimed: whatever the remote call does, each caller ends with a
\* concrete result or the not-found outcome, and no exception leaves it.
C2_ResultOrNotFound ==
    /\ ~pageThrown /\ ~barThrown /\ ~resThrown
    /\ pagePc = "rendered" => pageView.kind \in {"card", "notFound"}
    /\ barSettled \in {"none", "data"}
    /\ resSettled \in {"none", "data"}

\* C2, amended: no exception of getPlaceDetails or searchPlaces leaves
\* PlacePage, SearchBar or SearchResults; each caller ends with a concrete
\* result, the not-found outcome (a 404, or a null body), or, exactly when
\* the call threw, a failure outcome of its own: the failed-to-load view of
\* PlacePage, the logged error of SearchBar and SearchResults.
C2_NoExceptionEscapes ==
    /\ ~pageThrown /\ ~barThrown /\ ~resThrown
    /\ pagePc = "rendered" =>
          /\ pageView.kind \in {"card", "notFound", "fetchError"}
          /\ pageView.kind = "fetchError" <=> pageFetch.threw
          /\ pageView.kind = "notFound" <=> pageFetch = Returned(Null)
    /\ barSettled \in {"none", "data", "logged"}
    /\ resSettled \in {"none", "data", "logged"}

C2_Witness ==
    /\ pagePc = "rendered"
    /\ pageRes # NetworkError
    /\ pageRes.status = 500
    /\ pageView.kind = "fetchError"

\* C4: while the query has fewer than 2 characters after trimming no
\* debounce timer is pending, and the edit that made it so emptied the
\* results; every searchPlaces call SearchBar starts is for a text of
\* trimmed length at least 2 that is the query when the timer fires.
C4_ShortQuerySendsNothing ==
    /\ [](Len(trim(barQuery)) < 2 => barTimers = {})
    /\ [][(barQuery' # barQuery /\ Len(trim(barQuery')) < 2) =>
             (barResults' = <<>> /\ barTimers' = {})]_vars
    /\ [][\A q \in Queries :
             CopiesIn(q, barInflight') > CopiesIn(q, barInflight) =>
                 /\ Len(trim(q)) >= 2
                 /\ q = barQuery
                 /\ q = barQuery']_vars

C4_Witness ==
    /\ BagIn(<<"a", "a">>, barInflight)
    /\ barQuery = <<" ", "a", " ">>
    /\ barResults = <<>>
    /\ barTimers = {}

\* the effect of SearchResults has nothing left to run
ResultsQuiet == resTimers = EmptyBag /\ resInflight = EmptyBag

\* C5: for the query "" and for the query " ", SearchResults ends holding
\* the empty list, whatever the service answers; handleSearchSubmit pushes
\* no search route for a blank query.
C5_BlankSearchEndsEmpty ==
    /\ (resQuery \in {<<>>, <<" ">>} /\ ResultsQuiet) => resResults = <<>>
    /\ barPushed.kind = "search" => trim(barPushed.q) # <<>>

\* C6: for a status that is neither open nor closed (in any letter case)
\* and any confidence, none of ResultCard, the SearchResults row and the
\* dropdown row shows a confidence figure.
C6_NoConfidenceWhenUnknown ==
    ~IsOpenOrClosed(rcvStatus) =>
        /\ shownCard # None => shownCard.confidence = <<>>
        /\ shownRow # None => shownRow.confidence = <<>>
        /\ shownDropdownRow # None => shownDropdownRow.confidence = <<>>

C6_Witness ==
    /\ rcvStatus = Str_UNKNOWN
    /\ rcvConfidence = 875
    /\ shownCard # None /\ shownCard.confidence = <<>>
    /\ shownRow # None /\ shownRow.confidence = <<>>
    /\ shownDropdownRow # None /\ shownDropdownRow.confidence = <<>>

\* the order the claim states, written out for two catalog rows
StatedOrder(text, p, q) ==
    \/ Similarity(text, p.name) > Similarity(text, q.name)
    \/ /\ Similarity(text, p.name) = Similarity(text, q.name)
       /\ p.last_updated > q.last_updated
    \/ /\ Similarity(text, p.name) = Similarity(text, q.name)
       /\ p.last_updated = q.last_updated
       /\ IdRank(p.place_id) < IdRank(q.place_id)

\* C7: the candidates are in descending relevance, equal scores by
\* last_updated descending and then place_id ascending, the kept ones
\* ranking above the ones cut off; the same query gives the same order of
\* ids as before, whatever order the store returned the rows in; and
\* SearchResults and the dropdown show the candidates in the order
\* received, none dropped, doubled or moved.
C7_RankedAndShownInOrder ==
    /\ qsPc \in {"resolve", "done", "shown"} =>
          /\ \A i, j \in 1..Len(qsRanked) :
                i < j => StatedOrder(qsQuery, qsRanked[i], qsRanked[j])
          /\ \A p \in Matching(qsQuery), i \in 1..Len(qsRanked) :
                \/ \E j \in 1..Len(qsRanked) : qsRanked[j] = p
                \/ StatedOrder(qsQuery, qsRanked[i], p)
    /\ (qsPc \in {"done", "shown"} /\ qsLast # None /\ qsLast.q = qsQuery) =>
          Ids(qsOut) = qsLast.ids
    /\ qsPc = "shown" =>
          /\ Ids(qsRows) = Ids(qsOut)
          /\ Ids(qsDropdown) = Ids(qsOut)

C7_Witness ==
    /\ qsPc = "shown"
    /\ qsQuery = <<"a", "a">>
    /\ qsLast # None
    /\ qsLast.q = qsQuery
    /\ Ids(qsRows) = <<"p1", "p3", "p4">>
    /\ Ids(qsDropdown) = <<"p1", "p3", "p4">>

\* C8: the answer holds every one of the top-limit candidates, in rank
\* order, those whose prediction errored with status UNKNOWN; while
\* candidates remain the search can always take its next step.
C8_NoPartialFailure ==
    /\ qsPc \in {"done", "shown"} =>
          /\ Len(qsOut) = Len(qsRanked)
          /\ Len(trim(qsQuery)) >= 2 =>
                Len(qsOut) = Min(Limit, Cardinality(Matching(qsQuery)))
          /\ \A i \in 1..Len(qsRanked) :
                /\ i <= Len(qsOut)
                /\ qsOut[i].id = qsRanked[i].place_id
                /\ i \in qsFailed => qsOut[i].status = Str_unknown
    /\ qsPc = "resolve" =>
          /\ Len(qsOut) = qsIndex
          /\ ENABLED (\/ \E outcome \in PredictionOutcomes : QsResolve(outcome)
                      \/ QsReturn)

C8_Witness ==
    /\ qsPc = "done"
    /\ Len(qsOut) = 3
    /\ qsFailed = {1, 3}
    /\ qsOut[1].status = Str_unknown
    /\ qsOut[2].status = Str_closed
\* C11: the catalog is unchanged by every operation: no step of any
\* component, and no searchPlaces or getPlaceDetails request served in any
\* order, changes a catalog row.
C11_CatalogUnchanged == [][catalog' = catalog]_vars

\* the service has served a getPlaceDetails request for a seeded row and
\* then a searchPlaces request, and nothing is outstanding
C11_Witness ==
    /\ component = "Api"
    /\ apiPending = EmptyBag
    /\ Len(apiServed) >= 2
    /\ apiServed[1] = getPlaceDetailsRequest("p1")
    /\ apiServed[2] = searchPlacesRequest(<<"a", "a">>)
    /\ catalog = SeedCatalog
\* SearchBar is at rest: no debounce timer is pending and no searchPlaces
\* call is outstanding
BarQuiet == barTimers = {} /\ barInflight = EmptyBag

\* C12: with an unchanged catalog, once no request of SearchBar is
\* outstanding (and every response that arrived was a list), the results it
\* holds are the endpoint's answer to the most recently sent query, and are
\* empty if the current query has trimmed length below 2.
C12_ResultsFollowLatestQuery ==
    (component = "SearchBar" /\ BarQuiet /\ barSettled # "logged")
        => IF Len(trim(barQuery)) < MinQueryLength
           THEN barResults = <<>>
           ELSE /\ barLastSent # None
                /\ barResults = AnswerFor(barLastSent.q)
\* C13: in SearchResults, once the query prop has changed, the completion
\* (success or failure) of a request issued for an earlier query leaves
\* results and loading as they were.
C13_StaleCompletionWritesNothing ==
    [][\A r \in BagToSet(resInflight) :
          (~r.current /\ resInflight' = resInflight (-) SetToBag({r}))
              => (resResults' = resResults /\ resLoading' = resLoading)]_vars

\* the request for "aa" answered with a list after the query had become
\* "a a", whose own request is still under way: nothing of it is held, and
\* the spinner set for "a a" is still on
C13_Witness ==
    /\ component = "SearchResults"
    /\ resQuery = <<"a", " ", "a">>
    /\ resLate = [kind |-> "late", q |-> <<"a", "a">>, threw |-> FALSE,
                  list |-> <<CandidateA>>]
    /\ resInflight =
           SetToBag({[q |-> resQuery, active |-> TRUE, current |-> TRUE]})
    /\ resSettled = "data"
    /\ resResults = <<>>
    /\ resLoading
\* C14: in SearchResults, once every request issued has settled and every
\* zero-delay timer has fired, loading is false: the spinner does not stay.
C14_SpinnerNeverPersists ==
    (component = "SearchResults" /\ ResultsQuiet) => ~resLoading
\* C15: the badge and the confidence figure agree for every status
\* string: a SearchResults row and a dropdown row show a confidence
\* percentage exactly when StatusBadge renders the row's status as Open or
\* Closed, as ResultCard does.
C15_BadgeAndConfidenceAgree ==
    /\ shownRow # None
           => (Len(shownRow.confidence) > 0
                   <=> shownRow.badge \in {"Open", "Closed"})
    /\ shownDropdownRow # None
           => (Len(shownDropdownRow.confidence) > 0
                   <=> shownDropdownRow.badge \in {"Open", "Closed"})
    /\ (shownCard # None /\ shownRow # None)
           => Len(shownRow.confidence) = Len(shownCard.confidence)
    /\ (shownCard # None /\ shownDropdownRow # None)
           => Len(shownDropdownRow.confidence) = Len(shownCard.confidence)
\* C16: in LoadingView the message index stays within 0..3, advances by
\* one per tick and never decreases; onComplete is invoked at most once,
\* only after the last message (index 3) has been shown, and never after
\* the component has been unmounted.
C16_IndexAndCompletion ==
    /\ [](/\ lvIndex \in 0..(NumMessages - 1)
          /\ Len(lvCalls) <= 1
          /\ \A i \in 1..Len(lvCalls) :
                 lvCalls[i].index = NumMessages - 1 /\ lvCalls[i].mounted)
    /\ [][lvIndex' \in {lvIndex, lvIndex + 1}]_vars

====
